---- MODULE Spec2Model ----
(***************************************************************************)
(* The fan-out FIFO of txproto (fifo_template.c as instantiated by         *)
(* fifo_packet.c): queues protected by a mutex and two condition           *)
(* variables, mirrored into one another through two buffer lists.          *)
(*                                                                         *)
(* Every thread runs one call at a time.  A call is cut into steps at the  *)
(* places where it takes a mutex, waits on a condition variable or touches *)
(* a buffer list that is not protected by the FIFO's own mutex.            *)
(***************************************************************************)
EXTENDS Integers, Sequences, FiniteSets, TLC

\* ------------------------------------------------------------------ bounds
\* Push calls (null or not) made in one run; also the number of item ids.
MaxPush == 4
\* Entries a dests or sources list may grow to (mirror is not called past it).
MaxLinks == 2
\* Push calls made in one run of the fan-out specification.
MaxFanPush == 3
\* Push calls made in one run of the mirroring specification.
MaxMirrorPush == 1

\* --------------------------------------------------------------- constants
Fifo == {"S", "M", "D"}
Threads == {"t1", "t2", "t3"}
NoThread == "none"

\* A null item pointer; items are the ids 1..MaxPush of their payload.
NULL == 0
Items == 1..MaxPush
\* max_queued == -1: unlimited.
Unlimited == -1

BLOCK_NO_INPUT == "BLOCK_NO_INPUT"
BLOCK_MAX_OUTPUT == "BLOCK_MAX_OUTPUT"
PULL_NO_BLOCK == "PULL_NO_BLOCK"
PULL_POKE == "PULL_POKE"

OK == "OK"
ENOBUFS == "ENOBUFS"
ENOMEM == "ENOMEM"
EAGAIN == "EAGAIN"

VARIABLES
    queued,       \* SNAME.queued[0 .. num_queued-1], head first
    max_queued,   \* SNAME.max_queued
    block_flags,  \* SNAME.block_flags
    poked,        \* SNAME.poked
    lock,         \* SNAME.lock: the thread holding it, or NoThread
    dests,        \* SNAME.dests: the entries of the buffer list, in order
    sources,      \* SNAME.sources
    dests_iter,   \* the thread traversing SNAME.dests (holds the list's lock)
    alive,        \* FALSE once fifo_destroy has run
    wait_in,      \* threads blocked in pthread_cond_wait(&cond_in)
    wait_out,     \* threads blocked in pthread_cond_wait(&cond_out)
    pc,           \* where each thread is in its call
    frames,       \* the stack of fifo_push activations of each thread
    call,         \* the arguments of each thread's call
    ret,          \* what each thread's last call returned
    refs,         \* reference count of each item's payload
    assert_failed,\* an assert() has aborted the process
    next_item,    \* the id the next push call draws
    woken_by,     \* history: what last took the thread out of a wait
    enq,          \* history: entries the thread's push stored, per FIFO
    pushlog,      \* history: per FIFO, the top-level pushes that returned
    poplog        \* history: per FIFO, the items pops returned with 0

fifoVars == <<queued, max_queued, block_flags, poked, lock, alive>>
listVars == <<dests, sources, dests_iter>>
condVars == <<wait_in, wait_out, woken_by>>
threadVars == <<pc, frames, call, ret>>
histVars == <<enq, pushlog, poplog>>
vars == <<queued, max_queued, block_flags, poked, lock, dests, sources,
          dests_iter, alive, wait_in, wait_out, pc, frames, call, ret, refs,
          assert_failed, next_item, woken_by, enq, pushlog, poplog>>

\* ------------------------------------------------------------- helpers
num_queued(f) == Len(queued[f])

Range(s) == {s[i] : i \in 1..Len(s)}

RECURSIVE Count(_, _)
Count(s, e) ==
    IF s = <<>> THEN 0
    ELSE (IF Head(s) = e THEN 1 ELSE 0) + Count(Tail(s), e)

RECURSIVE NonNull(_)
NonNull(s) ==
    IF s = <<>> THEN <<>>
    ELSE IF Head(s) = NULL THEN NonNull(Tail(s))
         ELSE <<Head(s)>> \o NonNull(Tail(s))

NoEnq == [f \in Fifo |-> 0]
NoCall == [op |-> "none", f |-> "S", g |-> "S", item |-> NULL,
           flags |-> {}, pop |-> FALSE, room |-> {}, raced |-> FALSE]
NoRet == [op |-> "none", code |-> OK, out |-> NULL, owned |-> FALSE]

Running(t, where) == ~assert_failed /\ pc[t] = where

\* CLONE_FN: a null item stays null, any other gets one more reference to
\* the same payload.
CLONE_FN(x) == x
\* Mutant: the pointer is stored as it is, no reference is added.
RefCloneShared(r, x) == r

RefClone(r, x) == IF x = NULL THEN r ELSE [r EXCEPT ![x] = @ + 1]
\* FREE_FN drops one reference.
RefFree(r, x) == IF x = NULL THEN r ELSE [r EXCEPT ![x] = @ - 1]

\* pthread_cond_signal: one of the waiters leaves the wait, if there is one.
Wakeable(W) == IF W = {} THEN {NoThread} ELSE W
Signalled(W, w) == W \ {w}
Cause(w, why) == IF w = NoThread THEN woken_by ELSE [woken_by EXCEPT ![w] = why]

\* -------------------------------------------------------- buffer list
\* sp_bufferlist_append: the entry goes to the end of the list.
sp_bufferlist_append(list, entry) == Append(list, entry)

\* find_ref_by_data: the entry whose data is the given struct.
find_ref_by_data(entry, opaque) == entry = opaque

\* sp_bufferlist_find_fn_first: any entry.
sp_bufferlist_find_fn_first(entry, opaque) == TRUE

\* Index of the first entry of the list that is `opaque` (0: none).
FirstIndex(list, opaque) ==
    LET hits == {i \in 1..Len(list) : find_ref_by_data(list[i], opaque)}
    IN IF hits = {} THEN 0 ELSE CHOOSE i \in hits : \A j \in hits : i <= j

RemoveAt(list, i) ==
    [j \in 1..(Len(list) - 1) |-> IF j < i THEN list[j] ELSE list[j + 1]]

\* sp_bufferlist_pop(list, find_ref_by_data, opaque): the list without its
\* first matching entry (unchanged when nothing matches).
sp_bufferlist_pop(list, opaque) ==
    IF FirstIndex(list, opaque) = 0 THEN list
    ELSE RemoveAt(list, FirstIndex(list, opaque))

\* sp_bufferlist_pop(list, sp_bufferlist_find_fn_first, NULL)
sp_bufferlist_pop_first(list) == Tail(list)

\* ------------------------------------------------------------ fifo_push
Frame(f) == [f |-> f, idx |-> 0, err |-> OK, halt |-> FALSE]
Top(t) == frames[t][Len(frames[t])]
Below(t) == SubSeq(frames[t], 1, Len(frames[t]) - 1)

\* Mutant: the capacity test is num_queued >= max_queued + 1.
PushDecisionOffByOne(f, x) ==
    IF max_queued[f] = 0 THEN "distribute"
    ELSE IF x # NULL /\ max_queued[f] # Unlimited
            /\ num_queued(f) >= max_queued[f] + 1
         THEN IF BLOCK_MAX_OUTPUT \notin block_flags[f] THEN "enobufs"
              ELSE "wait"
         ELSE "enqueue"

\* Mutant: BLOCK_MAX_OUTPUT is ignored, a full queue always refuses.
PushDecisionNoWait(f, x) ==
    IF max_queued[f] = 0 THEN "distribute"
    ELSE IF x # NULL /\ max_queued[f] # Unlimited
            /\ num_queued(f) > max_queued[f] + 1
         THEN "enobufs"
         ELSE "enqueue"

\* Mutant: a null item is handed to the destinations and not stored.
PushDecisionNullSkipped(f, x) ==
    IF max_queued[f] = 0 \/ x = NULL THEN "distribute"
    ELSE IF max_queued[f] # Unlimited /\ num_queued(f) > max_queued[f] + 1
         THEN IF BLOCK_MAX_OUTPUT \notin block_flags[f] THEN "enobufs"
              ELSE "wait"
         ELSE "enqueue"

\* Mutant: a push refused by a full queue still runs the distribute loop.
PushDecisionRefusedFansOut(f, x) ==
    IF max_queued[f] = 0 THEN "distribute"
    ELSE IF x # NULL /\ max_queued[f] # Unlimited
            /\ num_queued(f) > max_queued[f] + 1
         THEN IF BLOCK_MAX_OUTPUT \notin block_flags[f] THEN "distribute"
              ELSE "wait"
         ELSE "enqueue"

\* A non-null push on f would store its item: f buffers and is not over
\* capacity.
HasRoom(f) ==
    /\ max_queued[f] # 0
    /\ (max_queued[f] = Unlimited \/ num_queued(f) <= max_queued[f] + 1)

\* What a push finds under the lock, before it stores anything.
PushDecision(f, x) ==
    IF max_queued[f] = 0 THEN "distribute"
    ELSE IF x # NULL /\ max_queued[f] # Unlimited
            /\ num_queued(f) > max_queued[f] + 1
         THEN IF BLOCK_MAX_OUTPUT \notin block_flags[f] THEN "enobufs"
              ELSE "wait"
         ELSE "enqueue"

\* Mutant: the loop is left on any error of a destination.
AfterChildHaltsOnError(parent, code) ==
    IF code # OK THEN [parent EXCEPT !.err = code, !.halt = TRUE] ELSE parent

\* The caller's loop body after a recursive push returned `code`.
AfterChild(parent, code) ==
    IF code = ENOMEM THEN [parent EXCEPT !.err = code, !.halt = TRUE]
    ELSE IF code # OK /\ parent.err = OK THEN [parent EXCEPT !.err = code]
    ELSE parent

\* The activation on top of t's stack returns `code`, its FIFO unlocked;
\* `di` is dests_iter as the activation leaves it.
PushReturn(t, code, di) ==
    IF Len(frames[t]) = 1
    THEN /\ frames' = [frames EXCEPT ![t] = <<>>]
         /\ pc' = [pc EXCEPT ![t] = "idle"]
         /\ ret' = [ret EXCEPT ![t] = [NoRet EXCEPT !.op = "push", !.code = code]]
         /\ woken_by' = [woken_by EXCEPT ![t] = "none"]
         /\ pushlog' = [pushlog EXCEPT ![Top(t).f] =
                            Append(@, [item |-> call[t].item, code |-> code])]
         /\ call' = [call EXCEPT ![t] = NoCall]
         /\ dests_iter' = di
    ELSE LET parent == AfterChild(Below(t)[Len(Below(t))], code) IN
         /\ frames' = [frames EXCEPT ![t] =
                           [Below(t) EXCEPT ![Len(Below(t))] = parent]]
         /\ pc' = [pc EXCEPT ![t] = "push_dist"]
         \* sp_bufferlist_iter_halt on out-of-memory
         /\ dests_iter' = IF code = ENOMEM
                          THEN [di EXCEPT ![parent.f] = NoThread] ELSE di
         /\ UNCHANGED <<ret, pushlog, call, woken_by>>

\* Mutant: the item is stored but the FIFO's lock is not kept for the
\* distribute loop.
EnqueueUnlocked(t, f, x) ==
    \E w \in Wakeable(wait_in[f]) :
        /\ queued' = [queued EXCEPT ![f] = Append(@, CLONE_FN(x))]
        /\ refs' = RefClone(refs, x)
        /\ wait_in' = [wait_in EXCEPT ![f] = Signalled(@, w)]
        /\ woken_by' = Cause(w, "push")
        /\ pc' = [pc EXCEPT ![t] = "push_dist"]
        /\ enq' = [enq EXCEPT ![t][f] = @ + 1]
        /\ UNCHANGED <<max_queued, block_flags, poked, alive, listVars, lock,
                       wait_out, frames, call, ret, assert_failed, next_item,
                       pushlog, poplog>>

\* Lines 358-370: the clone goes to the tail and cond_in is signalled.
Enqueue(t, f, x) ==
    \E w \in Wakeable(wait_in[f]) :
        /\ queued' = [queued EXCEPT ![f] = Append(@, CLONE_FN(x))]
        /\ refs' = RefClone(refs, x)
        /\ wait_in' = [wait_in EXCEPT ![f] = Signalled(@, w)]
        /\ woken_by' = Cause(w, "push")
        /\ lock' = [lock EXCEPT ![f] = t]
        /\ pc' = [pc EXCEPT ![t] = "push_dist"]
        /\ enq' = [enq EXCEPT ![t][f] = @ + 1]
        /\ UNCHANGED <<max_queued, block_flags, poked, alive, listVars,
                       wait_out, frames, call, ret, assert_failed, next_item,
                       pushlog, poplog>>

\* fifo_push is called with item x (a fresh item, or null).
fifo_push(t, f, x) ==
    /\ Running(t, "idle")
    /\ ~ret[t].owned
    /\ alive[f]
    /\ next_item <= MaxPush
    /\ x \in {NULL, next_item}
    /\ next_item' = next_item + 1
    /\ refs' = IF x = NULL THEN refs ELSE [refs EXCEPT ![x] = 1]
    /\ call' = [call EXCEPT ![t] =
                    [NoCall EXCEPT !.op = "push", !.f = f, !.item = x,
                                   !.room = {g \in Fifo : HasRoom(g)}]]
    /\ frames' = [frames EXCEPT ![t] = <<Frame(f)>>]
    /\ pc' = [pc EXCEPT ![t] = "push_lock"]
    /\ enq' = [enq EXCEPT ![t] = NoEnq]
    /\ UNCHANGED <<fifoVars, listVars, condVars, ret, assert_failed,
                   pushlog, poplog>>

\* The activation takes its FIFO's lock and runs lines 344-370.
fifo_push_locked(t, nomem) ==
    /\ Running(t, "push_lock")
    /\ lock[Top(t).f] = NoThread
    /\ LET f == Top(t).f
           x == call[t].item
           d == PushDecision(f, x)
       IN CASE d = "distribute" ->
                 /\ lock' = [lock EXCEPT ![f] = t]
                 /\ pc' = [pc EXCEPT ![t] = "push_dist"]
                 /\ UNCHANGED <<queued, max_queued, block_flags, poked, alive,
                                listVars, condVars, frames, call, ret, refs,
                                assert_failed, next_item, histVars>>
            [] d = "enobufs" ->
                 /\ PushReturn(t, ENOBUFS, dests_iter)
                 /\ UNCHANGED <<fifoVars, dests, sources, wait_in, wait_out,
                                refs, assert_failed, next_item, enq, poplog>>
            [] d = "wait" ->
                 /\ wait_out' = [wait_out EXCEPT ![f] = @ \cup {t}]
                 /\ pc' = [pc EXCEPT ![t] = "push_wait"]
                 /\ UNCHANGED <<fifoVars, listVars, wait_in, woken_by, frames,
                                call, ret, refs, assert_failed, next_item,
                                histVars>>
            [] d = "enqueue" ->
                 IF nomem
                 THEN /\ PushReturn(t, ENOMEM, dests_iter)
                      /\ UNCHANGED <<fifoVars, dests, sources, wait_in,
                                     wait_out, refs, assert_failed, next_item,
                                     enq, poplog>>
                 ELSE Enqueue(t, f, x)

\* pthread_cond_wait(&cond_out) returns: the lock is taken again and the
\* item is stored without looking at the queue's length again.
fifo_push_resume(t, nomem) ==
    /\ Running(t, "push_wait")
    /\ t \notin wait_out[Top(t).f]
    /\ lock[Top(t).f] = NoThread
    /\ IF nomem
       THEN /\ PushReturn(t, ENOMEM, dests_iter)
            /\ UNCHANGED <<fifoVars, dests, sources, wait_in, wait_out, refs,
                           assert_failed, next_item, enq, poplog>>
       ELSE Enqueue(t, Top(t).f, call[t].item)

\* Mutant: the loop is left after the first destination.
MoreDestsFirstOnly(fr, list) == ~fr.halt /\ fr.idx < Len(list) /\ fr.idx < 1

\* Line 373: sp_bufferlist_iter_ref has another destination to give.
MoreDests(fr, list) == ~fr.halt /\ fr.idx < Len(list)

\* One turn of the distribute loop: sp_bufferlist_iter_ref gives the next
\* destination and fifo_push is entered on it, or the list is exhausted (or
\* the loop was left) and the activation unlocks and returns.
fifo_push_distribute(t) ==
    /\ Running(t, "push_dist")
    /\ LET fr == Top(t)
           f == fr.f
       IN /\ (fr.idx = 0 /\ ~fr.halt) => dests_iter[f] = NoThread
          /\ IF MoreDests(fr, dests[f])
             THEN /\ frames' = [frames EXCEPT ![t] =
                        Append([@ EXCEPT ![Len(@)].idx = fr.idx + 1],
                               Frame(dests[f][fr.idx + 1]))]
                  /\ dests_iter' = [dests_iter EXCEPT ![f] = t]
                  /\ pc' = [pc EXCEPT ![t] = "push_lock"]
                  /\ UNCHANGED <<fifoVars, dests, sources, condVars, call, ret,
                                 refs, assert_failed, next_item, histVars>>
             ELSE /\ lock' = [lock EXCEPT ![f] = NoThread]
                  /\ PushReturn(t, fr.err,
                                IF fr.halt THEN dests_iter
                                ELSE [dests_iter EXCEPT ![f] = NoThread])
                  /\ UNCHANGED <<queued, max_queued, block_flags, poked, alive,
                                 dests, sources, wait_in, wait_out, refs,
                                 assert_failed, next_item, enq, poplog>>

\* ------------------------------------------------- fifo_pull_flags_template
\* Mutant: PULL_NO_BLOCK is not looked at.
PullLoopNoBlockIgnored(f, flags, pk) ==
    IF num_queued(f) # 0 THEN [res |-> "take", poked |-> pk]
    ELSE IF BLOCK_NO_INPUT \notin block_flags[f]
    THEN [res |-> "eagain", poked |-> pk]
    ELSE IF ~pk THEN [res |-> "wait", poked |-> pk]
    ELSE IF PULL_POKE \in flags THEN [res |-> "eagain", poked |-> FALSE]
    ELSE [res |-> "wait", poked |-> FALSE]

\* Mutant: the loop waits without looking at poked first.
PullLoopWaitsFirst(f, flags, pk) ==
    IF num_queued(f) # 0 THEN [res |-> "take", poked |-> pk]
    ELSE IF BLOCK_NO_INPUT \notin block_flags[f] \/ PULL_NO_BLOCK \in flags
    THEN [res |-> "eagain", poked |-> pk]
    ELSE [res |-> "wait", poked |-> pk]

\* The while loop entered with poked = pk, up to where it waits or leaves.
PullLoop(f, flags, pk) ==
    IF num_queued(f) # 0 THEN [res |-> "take", poked |-> pk]
    ELSE IF BLOCK_NO_INPUT \notin block_flags[f] \/ PULL_NO_BLOCK \in flags
    THEN [res |-> "eagain", poked |-> pk]
    ELSE IF ~pk THEN [res |-> "wait", poked |-> pk]
    ELSE IF PULL_POKE \in flags THEN [res |-> "eagain", poked |-> FALSE]
    \* poked is cleared, the loop turns and waits
    ELSE [res |-> "wait", poked |-> FALSE]

\* Mutant: PULL_POKE is not looked at after the wait.
PullAfterWaitNoPoke(f, flags) == PullLoop(f, flags, FALSE)

\* Mutant: block_flags is not read again after the wait.
PullAfterWaitStaleFlags(f, flags) ==
    IF PULL_POKE \in flags /\ poked[f] THEN [res |-> "eagain", poked |-> FALSE]
    ELSE IF num_queued(f) # 0 THEN [res |-> "take", poked |-> FALSE]
    ELSE [res |-> "wait", poked |-> FALSE]

\* Lines 437-443 after the wait, then the loop again.
PullAfterWait(f, flags) ==
    IF PULL_POKE \in flags /\ poked[f] THEN [res |-> "eagain", poked |-> FALSE]
    ELSE PullLoop(f, flags, FALSE)

\* Mutant: a pull takes the newest item.
QueueNewest(q) == q[Len(q)]

\* Line 447: the item a pull takes.
QueueHead(q) == Head(q)
\* Lines 448-451: the remaining items move one slot down.
QueueShift(q) == Tail(q)

\* The rest of the call once the loop gave `o`.
PullFinish(t, f, o) ==
    CASE o.res = "wait" ->
           /\ wait_in' = [wait_in EXCEPT ![f] = @ \cup {t}]
           /\ poked' = [poked EXCEPT ![f] = o.poked]
           /\ pc' = [pc EXCEPT ![t] = "pull_wait"]
           /\ woken_by' = [woken_by EXCEPT ![t] = "none"]
           /\ UNCHANGED <<queued, max_queued, block_flags, lock, alive,
                          listVars, wait_out, frames, call, ret,
                          refs, assert_failed, next_item, histVars>>
      [] o.res = "eagain" ->
           /\ poked' = [poked EXCEPT ![f] = o.poked]
           /\ pc' = [pc EXCEPT ![t] = "idle"]
           /\ ret' = [ret EXCEPT ![t] =
                          [NoRet EXCEPT !.op = "pull", !.code = EAGAIN]]
           /\ call' = [call EXCEPT ![t] = NoCall]
           /\ UNCHANGED <<queued, max_queued, block_flags, lock, alive,
                          listVars, wait_in, wait_out, frames, refs,
                          assert_failed, next_item, histVars>>
           /\ woken_by' = [woken_by EXCEPT ![t] = "none"]
      [] o.res = "take" /\ call[t].pop ->
           \E w \in (IF max_queued[f] > 0 THEN Wakeable(wait_out[f])
                     ELSE {NoThread}) :
               /\ queued' = [queued EXCEPT ![f] = QueueShift(@)]
               /\ wait_out' = [wait_out EXCEPT ![f] = Signalled(@, w)]
               /\ woken_by' = [Cause(w, "pop") EXCEPT ![t] = "none"]
               /\ call' = [call EXCEPT ![t] = NoCall]
               /\ poked' = [poked EXCEPT ![f] = o.poked]
               /\ pc' = [pc EXCEPT ![t] = "idle"]
               /\ ret' = [ret EXCEPT ![t] =
                              [op |-> "pull", code |-> OK,
                               out |-> QueueHead(queued[f]),
                               owned |-> QueueHead(queued[f]) # NULL]]
               /\ poplog' = [poplog EXCEPT ![f] =
                                 Append(@, QueueHead(queued[f]))]
               /\ UNCHANGED <<max_queued, block_flags, lock, alive, listVars,
                              wait_in, frames, refs, assert_failed,
                              next_item, enq, pushlog>>
      [] o.res = "take" /\ ~call[t].pop ->
           /\ refs' = RefClone(refs, QueueHead(queued[f]))
           /\ poked' = [poked EXCEPT ![f] = o.poked]
           /\ pc' = [pc EXCEPT ![t] = "idle"]
           /\ ret' = [ret EXCEPT ![t] =
                          [op |-> "pull", code |-> OK,
                           out |-> CLONE_FN(QueueHead(queued[f])),
                           owned |-> QueueHead(queued[f]) # NULL]]
           /\ call' = [call EXCEPT ![t] = NoCall]
           /\ woken_by' = [woken_by EXCEPT ![t] = "none"]
           /\ UNCHANGED <<queued, max_queued, block_flags, lock, alive,
                          listVars, wait_in, wait_out, frames, assert_failed,
                          next_item, histVars>>

\* fifo_pop_flags / fifo_peek_flags / fifo_pop / fifo_peek are called.
fifo_pull_flags_template(t, f, flags, pop) ==
    /\ Running(t, "idle")
    /\ ~ret[t].owned
    /\ alive[f]
    /\ call' = [call EXCEPT ![t] =
                    [NoCall EXCEPT !.op = "pull", !.f = f, !.flags = flags,
                                   !.pop = pop]]
    /\ pc' = [pc EXCEPT ![t] = "pull_lock"]
    /\ UNCHANGED <<fifoVars, listVars, condVars, frames, ret, refs,
                   assert_failed, next_item, histVars>>

\* The call takes the lock and runs the loop to its first wait or its end.
fifo_pull_locked(t) ==
    /\ Running(t, "pull_lock")
    /\ lock[call[t].f] = NoThread
    /\ PullFinish(t, call[t].f, PullLoop(call[t].f, call[t].flags,
                                        poked[call[t].f]))

\* pthread_cond_wait(&cond_in) returns with the lock taken again.
fifo_pull_resume(t) ==
    /\ Running(t, "pull_wait")
    /\ t \notin wait_in[call[t].f]
    /\ lock[call[t].f] = NoThread
    /\ PullFinish(t, call[t].f, PullAfterWait(call[t].f, call[t].flags))

\* The caller frees the item a pop or peek gave it.
FREE_FN(t) ==
    /\ Running(t, "idle")
    /\ ret[t].owned
    /\ refs' = RefFree(refs, ret[t].out)
    /\ ret' = [ret EXCEPT ![t].owned = FALSE, ![t].out = NULL]
    /\ UNCHANGED <<fifoVars, listVars, condVars, pc, frames, call,
                   assert_failed, next_item, histVars>>

\* A waiter leaves pthread_cond_wait with no signal (POSIX allows it).
SpuriousWake(t) ==
    /\ ~assert_failed
    /\ pc[t] \in {"pull_wait", "push_wait"}
    /\ IF pc[t] = "pull_wait"
       THEN /\ t \in wait_in[call[t].f]
            /\ wait_in' = [wait_in EXCEPT ![call[t].f] = @ \ {t}]
            /\ UNCHANGED wait_out
       ELSE /\ t \in wait_out[Top(t).f]
            /\ wait_out' = [wait_out EXCEPT ![Top(t).f] = @ \ {t}]
            /\ UNCHANGED wait_in
    /\ woken_by' = [woken_by EXCEPT ![t] = "spurious"]
    /\ UNCHANGED <<fifoVars, listVars, threadVars, refs, assert_failed,
                   next_item, histVars>>

\* ------------------------------------------------------------- fifo_poke
\* Lines 400-402: poked is set under the lock.
fifo_poke(t, ref) ==
    /\ Running(t, "idle")
    /\ ~ret[t].owned
    /\ alive[ref]
    /\ lock[ref] = NoThread
    /\ poked' = [poked EXCEPT ![ref] = TRUE]
    /\ call' = [call EXCEPT ![t] = [NoCall EXCEPT !.op = "poke", !.f = ref]]
    /\ pc' = [pc EXCEPT ![t] = "poke_signal"]
    /\ UNCHANGED <<queued, max_queued, block_flags, lock, alive, listVars,
                   condVars, frames, ret, refs, assert_failed, next_item,
                   histVars>>

\* Line 403: cond_in is signalled after the lock was released.
fifo_poke_signal(t) ==
    /\ Running(t, "poke_signal")
    /\ \E w \in Wakeable(wait_in[call[t].f]) :
           /\ wait_in' = [wait_in EXCEPT ![call[t].f] = Signalled(@, w)]
           /\ woken_by' = Cause(w, "poke")
    /\ pc' = [pc EXCEPT ![t] = "idle"]
    /\ ret' = [ret EXCEPT ![t] = [NoRet EXCEPT !.op = "poke"]]
    /\ call' = [call EXCEPT ![t] = NoCall]
    /\ UNCHANGED <<fifoVars, listVars, wait_out, frames, refs,
                   assert_failed, next_item, histVars>>

\* ----------------------------------------------------------- fifo_mirror
\* Line 141: src is appended to dst's sources.
fifo_mirror(t, dst, src) ==
    /\ Running(t, "idle")
    /\ ~ret[t].owned
    /\ alive[dst] /\ alive[src]
    /\ Len(sources[dst]) < MaxLinks /\ Len(dests[src]) < MaxLinks
    /\ sources' = [sources EXCEPT ![dst] = sp_bufferlist_append(@, src)]
    \* history: the unmirror_all calls in progress now overlap a mirror call
    /\ call' = [u \in Threads |->
                    IF u = t
                    THEN [NoCall EXCEPT !.op = "mirror", !.f = dst, !.g = src]
                    ELSE IF call[u].op = "unmirror_all"
                    THEN [call[u] EXCEPT !.raced = TRUE]
                    ELSE call[u]]
    /\ pc' = [pc EXCEPT ![t] = "mirror_dests"]
    /\ UNCHANGED <<fifoVars, dests, dests_iter, condVars, frames, ret, refs,
                   assert_failed, next_item, histVars>>

\* Line 142: dst is appended to src's dests (the list's lock is free).
fifo_mirror_dests(t) ==
    /\ Running(t, "mirror_dests")
    /\ dests_iter[call[t].g] = NoThread
    /\ dests' = [dests EXCEPT ![call[t].g] = sp_bufferlist_append(@, call[t].f)]
    /\ pc' = [pc EXCEPT ![t] = "idle"]
    /\ ret' = [ret EXCEPT ![t] = [NoRet EXCEPT !.op = "mirror"]]
    /\ call' = [call EXCEPT ![t] = NoCall]
    /\ UNCHANGED <<fifoVars, sources, dests_iter, condVars, frames, refs,
                   assert_failed, next_item, histVars>>

\* --------------------------------------------------------- fifo_unmirror
\* Lines 172-175: dst is popped from src's dests; assert(dst_ref).
fifo_unmirror(t, dst, src) ==
    /\ Running(t, "idle")
    /\ ~ret[t].owned
    /\ alive[dst] /\ alive[src]
    /\ dests_iter[src] = NoThread
    /\ dests' = [dests EXCEPT ![src] = sp_bufferlist_pop(@, dst)]
    /\ assert_failed' = (FirstIndex(dests[src], dst) = 0)
    \* history: the unmirror_all calls in progress now overlap an unmirror
    /\ call' = [u \in Threads |->
                    IF u = t
                    THEN [NoCall EXCEPT !.op = "unmirror", !.f = dst, !.g = src]
                    ELSE IF call[u].op = "unmirror_all"
                    THEN [call[u] EXCEPT !.raced = TRUE]
                    ELSE call[u]]
    /\ pc' = [pc EXCEPT ![t] = "unmirror_sources"]
    /\ UNCHANGED <<fifoVars, sources, dests_iter, condVars, frames, ret, refs,
                   next_item, histVars>>

\* Lines 177-182: src is popped from dst's sources; assert(src_ref).
fifo_unmirror_sources(t) ==
    /\ Running(t, "unmirror_sources")
    /\ IF FirstIndex(sources[call[t].f], call[t].g) = 0
       THEN /\ assert_failed' = TRUE
            /\ UNCHANGED <<sources, pc, ret, call>>
       ELSE /\ sources' = [sources EXCEPT ![call[t].f] =
                               sp_bufferlist_pop(@, call[t].g)]
            /\ pc' = [pc EXCEPT ![t] = "idle"]
            /\ ret' = [ret EXCEPT ![t] = [NoRet EXCEPT !.op = "unmirror"]]
            /\ call' = [call EXCEPT ![t] = NoCall]
            /\ UNCHANGED assert_failed
    /\ UNCHANGED <<fifoVars, dests, dests_iter, condVars, frames, refs,
                   next_item, histVars>>

\* ----------------------------------------------------- fifo_unmirror_all
\* Line 204: ref's lock is taken.
fifo_unmirror_all(t, ref) ==
    /\ Running(t, "idle")
    /\ ~ret[t].owned
    /\ alive[ref]
    /\ lock[ref] = NoThread
    /\ lock' = [lock EXCEPT ![ref] = t]
    /\ call' = [call EXCEPT ![t] =
                    [NoCall EXCEPT !.op = "unmirror_all", !.f = ref,
                                   !.raced = \E u \in Threads :
                                       call[u].op \in {"mirror", "unmirror"}]]
    /\ pc' = [pc EXCEPT ![t] = "uma_sources"]
    /\ UNCHANGED <<queued, max_queued, block_flags, poked, alive, listVars,
                   condVars, frames, ret, refs, assert_failed, next_item,
                   histVars>>

\* Line 207: the first source is popped from ref's sources, if there is one.
fifo_unmirror_all_sources(t) ==
    /\ Running(t, "uma_sources")
    /\ IF sources[call[t].f] # <<>>
       THEN /\ sources' = [sources EXCEPT ![call[t].f] =
                               sp_bufferlist_pop_first(@)]
            /\ call' = [call EXCEPT ![t].g = Head(sources[call[t].f])]
            /\ pc' = [pc EXCEPT ![t] = "uma_src_peer"]
       ELSE /\ pc' = [pc EXCEPT ![t] = "uma_dests"]
            /\ UNCHANGED <<sources, call>>
    /\ UNCHANGED <<fifoVars, dests, dests_iter, condVars, frames, ret, refs,
                   assert_failed, next_item, histVars>>

\* Lines 209-210: ref is popped from that source's dests.
fifo_unmirror_all_src_peer(t) ==
    /\ Running(t, "uma_src_peer")
    /\ dests_iter[call[t].g] = NoThread
    /\ dests' = [dests EXCEPT ![call[t].g] = sp_bufferlist_pop(@, call[t].f)]
    /\ pc' = [pc EXCEPT ![t] = "uma_sources"]
    /\ UNCHANGED <<fifoVars, sources, dests_iter, condVars, frames, call, ret,
                   refs, assert_failed, next_item, histVars>>

\* Line 225: the first destination is popped from ref's dests, if there is
\* one; otherwise ref is unlocked and the call returns (lines 246-248).
fifo_unmirror_all_dests(t) ==
    /\ Running(t, "uma_dests")
    /\ IF dests[call[t].f] # <<>>
       THEN /\ dests_iter[call[t].f] = NoThread
            /\ dests' = [dests EXCEPT ![call[t].f] = sp_bufferlist_pop_first(@)]
            /\ call' = [call EXCEPT ![t].g = Head(dests[call[t].f])]
            /\ pc' = [pc EXCEPT ![t] = "uma_dst_peer"]
            /\ UNCHANGED <<lock, ret>>
       ELSE /\ lock' = [lock EXCEPT ![call[t].f] = NoThread]
            /\ pc' = [pc EXCEPT ![t] = "idle"]
            /\ ret' = [ret EXCEPT ![t] = [NoRet EXCEPT !.op = "unmirror_all"]]
            /\ call' = [call EXCEPT ![t] = NoCall]
            /\ UNCHANGED dests
    /\ UNCHANGED <<queued, max_queued, block_flags, poked, alive, sources,
                   dests_iter, condVars, frames, refs, assert_failed,
                   next_item, histVars>>

\* Lines 227-240: ref is popped from that destination's sources and the
\* destination's cond_in is signalled.
fifo_unmirror_all_dst_peer(t) ==
    /\ Running(t, "uma_dst_peer")
    /\ sources' = [sources EXCEPT ![call[t].g] = sp_bufferlist_pop(@, call[t].f)]
    /\ \E w \in Wakeable(wait_in[call[t].g]) :
           /\ wait_in' = [wait_in EXCEPT ![call[t].g] = Signalled(@, w)]
           /\ woken_by' = Cause(w, "unmirror_all")
    /\ pc' = [pc EXCEPT ![t] = "uma_dests"]
    /\ UNCHANGED <<fifoVars, dests, dests_iter, wait_out, frames, call, ret,
                   refs, assert_failed, next_item, histVars>>

\* ------------------------------------------------- runtime configuration
\* Mutant: the items above the new capacity are dropped.
fifo_set_max_queued_drops(t, dst, n) ==
    /\ Running(t, "idle")
    /\ ~ret[t].owned
    /\ alive[dst]
    /\ lock[dst] = NoThread
    /\ max_queued' = [max_queued EXCEPT ![dst] = n]
    /\ queued' = [queued EXCEPT ![dst] =
                      IF n > 0 /\ Len(@) > n THEN SubSeq(@, 1, n) ELSE @]
    /\ UNCHANGED call
    /\ ret' = [ret EXCEPT ![t] = [NoRet EXCEPT !.op = "set_max_queued"]]
    /\ UNCHANGED <<block_flags, poked, lock, alive, listVars, condVars,
                   pc, frames, refs, assert_failed, next_item, histVars>>

\* Lines 291-297.
fifo_set_max_queued(t, dst, n) ==
    /\ Running(t, "idle")
    /\ ~ret[t].owned
    /\ alive[dst]
    /\ lock[dst] = NoThread
    /\ max_queued' = [max_queued EXCEPT ![dst] = n]
    /\ UNCHANGED call
    /\ ret' = [ret EXCEPT ![t] = [NoRet EXCEPT !.op = "set_max_queued"]]
    /\ UNCHANGED <<queued, block_flags, poked, lock, alive, listVars, condVars,
                   pc, frames, refs, assert_failed, next_item, histVars>>

fifo_set_block_flags(t, dst, flags) ==
    /\ Running(t, "idle")
    /\ ~ret[t].owned
    /\ alive[dst]
    /\ lock[dst] = NoThread
    /\ block_flags' = [block_flags EXCEPT ![dst] = flags]
    /\ UNCHANGED call
    /\ ret' = [ret EXCEPT ![t] = [NoRet EXCEPT !.op = "set_block_flags"]]
    /\ UNCHANGED <<queued, max_queued, poked, lock, alive, listVars, condVars,
                   pc, frames, refs, assert_failed, next_item, histVars>>

\* ---------------------------------------------------------- fifo_destroy
\* A FIFO some call is working on, or some list refers to, is referenced.
InUse(f) ==
    \/ \E t \in Threads :
           /\ pc[t] # "idle"
           /\ \/ call[t].f = f
              \/ call[t].g = f /\ call[t].op \in {"mirror", "unmirror",
                                                  "unmirror_all"}
              \/ \E i \in 1..Len(frames[t]) : frames[t][i].f = f
    \/ \E g \in Fifo : f \in Range(dests[g]) \cup Range(sources[g])

RECURSIVE RefFreeAll(_, _)
RefFreeAll(r, q) ==
    IF q = <<>> THEN r ELSE RefFreeAll(RefFree(r, Head(q)), Tail(q))

\* The owner drops the last reference: both lists and every queued item
\* are freed.
fifo_destroy(t, f) ==
    /\ Running(t, "idle")
    /\ ~ret[t].owned
    /\ alive[f]
    /\ ~InUse(f)
    /\ alive' = [alive EXCEPT ![f] = FALSE]
    /\ sources' = [sources EXCEPT ![f] = <<>>]
    /\ dests' = [dests EXCEPT ![f] = <<>>]
    /\ refs' = RefFreeAll(refs, queued[f])
    /\ queued' = [queued EXCEPT ![f] = <<>>]
    /\ UNCHANGED call
    /\ ret' = [ret EXCEPT ![t] = [NoRet EXCEPT !.op = "destroy"]]
    /\ UNCHANGED <<max_queued, block_flags, poked, lock, dests_iter, condVars,
                   pc, frames, assert_failed, next_item, histVars>>

\* ------------------------------------------------------------ fifo_create
\* Every FIFO as fifo_create leaves it, with the capacities and block flags
\* given, and the lists as given (empty after fifo_create).
Created(mq, bf, ds, ss) ==
    /\ queued = [f \in Fifo |-> <<>>]
    /\ max_queued = mq
    /\ block_flags = bf
    /\ poked = [f \in Fifo |-> FALSE]
    /\ lock = [f \in Fifo |-> NoThread]
    /\ dests = ds
    /\ sources = ss
    /\ dests_iter = [f \in Fifo |-> NoThread]
    /\ alive = [f \in Fifo |-> TRUE]
    /\ wait_in = [f \in Fifo |-> {}]
    /\ wait_out = [f \in Fifo |-> {}]
    /\ pc = [t \in Threads |-> "idle"]
    /\ frames = [t \in Threads |-> <<>>]
    /\ call = [t \in Threads |-> NoCall]
    /\ ret = [t \in Threads |-> NoRet]
    /\ refs = [x \in Items |-> 0]
    /\ assert_failed = FALSE
    /\ next_item = 1
    /\ woken_by = [t \in Threads |-> "none"]
    /\ enq = [t \in Threads |-> NoEnq]
    /\ pushlog = [f \in Fifo |-> <<>>]
    /\ poplog = [f \in Fifo |-> <<>>]

NoLinks == [f \in Fifo |-> <<>>]
PullFlags == SUBSET {PULL_POKE, PULL_NO_BLOCK}
\* av_fast_realloc is taken to succeed.
AllocFails == {FALSE}

\* ------------------------------------------------------------------------
\* One FIFO, S, with a producer t1, a consumer t2 and a poker t3.
QueueCapacities == {Unlimited, 0, 1}

InitQueue ==
    \E n \in QueueCapacities, bf \in SUBSET {BLOCK_NO_INPUT, BLOCK_MAX_OUTPUT} :
        Created([f \in Fifo |-> IF f = "S" THEN n ELSE Unlimited],
                [f \in Fifo |-> IF f = "S" THEN bf ELSE {}],
                NoLinks, NoLinks)

NextQueue ==
    \/ \E x \in {NULL} \cup Items : fifo_push("t1", "S", x)
    \/ \E nomem \in AllocFails : fifo_push_locked("t1", nomem)
    \/ \E nomem \in AllocFails : fifo_push_resume("t1", nomem)
    \/ fifo_push_distribute("t1")
    \/ \E fl \in PullFlags, pop \in BOOLEAN :
           fifo_pull_flags_template("t2", "S", fl, pop)
    \/ fifo_pull_locked("t2")
    \/ fifo_pull_resume("t2")
    \/ FREE_FN("t2")
    \/ fifo_poke("t3", "S")
    \/ fifo_poke_signal("t3")
    \/ \E t \in {"t1", "t2"} : SpuriousWake(t)

SpecQueue == InitQueue /\ [][NextQueue]_vars

\* The same threads on a FIFO that blocks (BLOCK_NO_INPUT set), scheduled
\* fairly: a thread that can take its next step eventually takes it.
InitBlocking ==
    \E n \in QueueCapacities,
       bf \in {{BLOCK_NO_INPUT}, {BLOCK_NO_INPUT, BLOCK_MAX_OUTPUT}} :
        Created([f \in Fifo |-> IF f = "S" THEN n ELSE Unlimited],
                [f \in Fifo |-> IF f = "S" THEN bf ELSE {}],
                NoLinks, NoLinks)

FairQueue ==
    /\ InitBlocking /\ [][NextQueue]_vars
    /\ WF_vars(\E nomem \in AllocFails : fifo_push_locked("t1", nomem))
    /\ WF_vars(\E nomem \in AllocFails : fifo_push_resume("t1", nomem))
    /\ WF_vars(fifo_push_distribute("t1"))
    /\ WF_vars(fifo_pull_locked("t2"))
    /\ WF_vars(fifo_pull_resume("t2"))
    /\ WF_vars(fifo_poke_signal("t3"))

\* ------------------------------------------------------------------------
\* S mirrored into M and D, or the chain S -> M -> D; a producer t1 pushes
\* into S and a consumer t2 pulls from any of the three.  No FIFO blocks.
FanDests == [f \in Fifo |-> IF f = "S" THEN <<"M", "D">> ELSE <<>>]
FanSources == [f \in Fifo |-> IF f = "S" THEN <<>> ELSE <<"S">>]
ChainDests ==
    [f \in Fifo |-> IF f = "S" THEN <<"M">> ELSE IF f = "M" THEN <<"D">> ELSE <<>>]
ChainSources ==
    [f \in Fifo |-> IF f = "M" THEN <<"S">> ELSE IF f = "D" THEN <<"M">> ELSE <<>>]

InitFan ==
    \E mq \in [Fifo -> QueueCapacities], fan \in BOOLEAN :
        Created(mq, [f \in Fifo |-> {}],
                IF fan THEN FanDests ELSE ChainDests,
                IF fan THEN FanSources ELSE ChainSources)

NextFan ==
    \/ \E x \in {NULL} \cup Items :
           next_item <= MaxFanPush /\ fifo_push("t1", "S", x)
    \/ \E nomem \in AllocFails : fifo_push_locked("t1", nomem)
    \/ fifo_push_distribute("t1")
    \/ \E f \in Fifo : fifo_pull_flags_template("t2", f, {}, TRUE)
    \/ fifo_pull_locked("t2")
    \/ FREE_FN("t2")

SpecFan == InitFan /\ [][NextFan]_vars

\* ------------------------------------------------------------------------
\* Three FIFOs created without links.  Thread t3 mirrors and unmirrors the
\* pairs of the chain S -> M -> D (an unmirror is only called on a pair that
\* is mirrored); t1 pushes into S, calls unmirror_all and destroys FIFOs
\* nothing refers to any more; t2 pops from D, which blocks on no input.
MirrorPairs == {<<"M", "S">>, <<"D", "M">>}

Mirrored(dst, src) ==
    FirstIndex(dests[src], dst) # 0 /\ FirstIndex(sources[dst], src) # 0

InitMirror ==
    Created([f \in Fifo |-> Unlimited],
            [f \in Fifo |-> IF f = "D" THEN {BLOCK_NO_INPUT} ELSE {}],
            NoLinks, NoLinks)

NextMirror ==
    \/ \E p \in MirrorPairs : fifo_mirror("t3", p[1], p[2])
    \/ fifo_mirror_dests("t3")
    \/ \E p \in MirrorPairs :
           Mirrored(p[1], p[2]) /\ fifo_unmirror("t3", p[1], p[2])
    \/ fifo_unmirror_sources("t3")
    \/ \E x \in Items : next_item <= MaxMirrorPush /\ fifo_push("t1", "S", x)
    \/ \E nomem \in AllocFails : fifo_push_locked("t1", nomem)
    \/ fifo_push_distribute("t1")
    \/ \E f \in Fifo : fifo_unmirror_all("t1", f)
    \/ fifo_unmirror_all_sources("t1")
    \/ fifo_unmirror_all_src_peer("t1")
    \/ fifo_unmirror_all_dests("t1")
    \/ fifo_unmirror_all_dst_peer("t1")
    \/ \E f \in Fifo : fifo_destroy("t1", f)
    \/ fifo_pull_flags_template("t2", "D", {}, TRUE)
    \/ fifo_pull_locked("t2")
    \/ fifo_pull_resume("t2")
    \/ FREE_FN("t2")

SpecMirror == InitMirror /\ [][NextMirror]_vars

\* The same without unmirror_all and destroy: the links change only through
\* the mirror and unmirror calls of t3, one after the other.
NextPair ==
    \/ \E p \in MirrorPairs : fifo_mirror("t3", p[1], p[2])
    \/ fifo_mirror_dests("t3")
    \/ \E p \in MirrorPairs :
           Mirrored(p[1], p[2]) /\ fifo_unmirror("t3", p[1], p[2])
    \/ fifo_unmirror_sources("t3")
    \/ \E x \in Items : next_item <= MaxMirrorPush /\ fifo_push("t1", "S", x)
    \/ \E nomem \in AllocFails : fifo_push_locked("t1", nomem)
    \/ fifo_push_distribute("t1")
    \/ fifo_pull_flags_template("t2", "D", {}, TRUE)
    \/ fifo_pull_locked("t2")
    \/ fifo_pull_resume("t2")
    \/ FREE_FN("t2")

SpecPair == InitMirror /\ [][NextPair]_vars

\* ------------------------------------------------------------------------
\* The fan S -> {M, D} or the chain S -> M -> D with one producer and no
\* consumer: the queues fill up, and av_fast_realloc may fail.
AllocMayFail == BOOLEAN

NextRefuse ==
    \/ \E x \in {NULL} \cup Items : fifo_push("t1", "S", x)
    \/ \E nomem \in AllocMayFail : fifo_push_locked("t1", nomem)
    \/ fifo_push_distribute("t1")

SpecRefuse == InitFan /\ [][NextRefuse]_vars

\* ------------------------------------------------------------------------
\* One FIFO, S, that does not block.  The producer t1 pushes into S, the
\* consumer t2 pops or peeks and frees what it got, and t3 destroys S once
\* no call is working on it.
InitRefs ==
    \E n \in QueueCapacities :
        Created([f \in Fifo |-> IF f = "S" THEN n ELSE Unlimited],
                [f \in Fifo |-> {}], NoLinks, NoLinks)

NextRefs ==
    \/ \E x \in {NULL} \cup Items : fifo_push("t1", "S", x)
    \/ \E nomem \in AllocFails : fifo_push_locked("t1", nomem)
    \/ fifo_push_distribute("t1")
    \/ \E pop \in BOOLEAN : fifo_pull_flags_template("t2", "S", {}, pop)
    \/ fifo_pull_locked("t2")
    \/ FREE_FN("t2")
    \/ fifo_destroy("t3", "S")

SpecRefs == InitRefs /\ [][NextRefs]_vars

\* ------------------------------------------------------------------------
\* One FIFO, S, created unlimited, with or without BLOCK_MAX_OUTPUT: the
\* producer t1 pushes, the consumer t2 pops, and t3 changes the capacity.
InitCapacity ==
    \E bf \in {{}, {BLOCK_MAX_OUTPUT}} :
        Created([f \in Fifo |-> Unlimited],
                [f \in Fifo |-> IF f = "S" THEN bf ELSE {}], NoLinks, NoLinks)

NextCapacity ==
    \/ \E x \in {NULL} \cup Items : fifo_push("t1", "S", x)
    \/ \E nomem \in AllocFails : fifo_push_locked("t1", nomem)
    \/ \E nomem \in AllocFails : fifo_push_resume("t1", nomem)
    \/ fifo_push_distribute("t1")
    \/ fifo_pull_flags_template("t2", "S", {}, TRUE)
    \/ fifo_pull_locked("t2")
    \/ FREE_FN("t2")
    \/ \E n \in QueueCapacities : fifo_set_max_queued("t3", "S", n)
    \/ SpuriousWake("t1")

SpecCapacity == InitCapacity /\ [][NextCapacity]_vars

\* ------------------------------------------------------------------------
\* The chain S -> M -> D, all unlimited, D blocking on no input: the
\* producer t1 pushes into S while t3 detaches FIFOs with unmirror_all and
\* the consumer t2 pops from D.
InitSwap ==
    Created([f \in Fifo |-> Unlimited],
            [f \in Fifo |-> IF f = "D" THEN {BLOCK_NO_INPUT} ELSE {}],
            ChainDests, ChainSources)

NextSwap ==
    \/ \E x \in Items : next_item <= MaxFanPush /\ fifo_push("t1", "S", x)
    \/ \E nomem \in AllocFails : fifo_push_locked("t1", nomem)
    \/ fifo_push_distribute("t1")
    \/ \E f \in Fifo : fifo_unmirror_all("t3", f)
    \/ fifo_unmirror_all_sources("t3")
    \/ fifo_unmirror_all_src_peer("t3")
    \/ fifo_unmirror_all_dests("t3")
    \/ fifo_unmirror_all_dst_peer("t3")
    \/ fifo_pull_flags_template("t2", "D", {}, TRUE)
    \/ fifo_pull_locked("t2")
    \/ fifo_pull_resume("t2")
    \/ FREE_FN("t2")

SpecSwap == InitSwap /\ [][NextSwap]_vars

\* ------------------------------------------------------------------------
\* The fan S -> {M, D}, all unlimited: two producers t1 and t3 push into S
\* while the consumer t2 pops from the destinations.
InitOrder ==
    Created([f \in Fifo |-> Unlimited], [f \in Fifo |-> {}],
            FanDests, FanSources)

NextOrder ==
    \/ \E t \in {"t1", "t3"}, x \in Items :
           next_item <= MaxFanPush /\ fifo_push(t, "S", x)
    \/ \E t \in {"t1", "t3"}, nomem \in AllocFails : fifo_push_locked(t, nomem)
    \/ \E t \in {"t1", "t3"} : fifo_push_distribute(t)
    \/ \E f \in {"M", "D"} : fifo_pull_flags_template("t2", f, {}, TRUE)
    \/ fifo_pull_locked("t2")
    \/ FREE_FN("t2")

SpecOrder == InitOrder /\ [][NextOrder]_vars

\* ------------------------------------------------------------------------
\* The link S -> M, both unlimited, M blocking on no input: the consumer t2
\* pops from M while t1 pushes into S and t3 changes M's block flags, pokes
\* M and detaches S.
LinkDests == [f \in Fifo |-> IF f = "S" THEN <<"M">> ELSE <<>>]
LinkSources == [f \in Fifo |-> IF f = "M" THEN <<"S">> ELSE <<>>]

InitFlags ==
    Created([f \in Fifo |-> Unlimited],
            [f \in Fifo |-> IF f = "M" THEN {BLOCK_NO_INPUT} ELSE {}],
            LinkDests, LinkSources)

NextFlags ==
    \/ \E x \in Items : next_item <= MaxMirrorPush /\ fifo_push("t1", "S", x)
    \/ \E nomem \in AllocFails : fifo_push_locked("t1", nomem)
    \/ fifo_push_distribute("t1")
    \/ \E flags \in {{}, {PULL_POKE}} :
           fifo_pull_flags_template("t2", "M", flags, TRUE)
    \/ fifo_pull_locked("t2")
    \/ fifo_pull_resume("t2")
    \/ FREE_FN("t2")
    \/ SpuriousWake("t2")
    \/ \E flags \in {{}, {BLOCK_NO_INPUT}} : fifo_set_block_flags("t3", "M", flags)
    \/ fifo_poke("t3", "M")
    \/ fifo_poke_signal("t3")
    \/ fifo_unmirror_all("t3", "S")
    \/ fifo_unmirror_all_sources("t3")
    \/ fifo_unmirror_all_dests("t3")
    \/ fifo_unmirror_all_dst_peer("t3")

SpecFlags == InitFlags /\ [][NextFlags]_vars

\* ------------------------------------------------------------------------
\* History read off the logs.
RECURSIVE OkItems(_)
OkItems(log) ==
    IF log = <<>> THEN <<>>
    ELSE IF Head(log).code = OK /\ Head(log).item # NULL
         THEN <<Head(log).item>> \o OkItems(Tail(log))
         ELSE OkItems(Tail(log))

\* The item of a top-level push on f that has stored it and not returned yet.
InFlight(f) ==
    IF \E t \in Threads : /\ call[t].op = "push" /\ call[t].f = f
                          /\ call[t].item # NULL /\ enq[t][f] > 0
    THEN LET t == CHOOSE t \in Threads : /\ call[t].op = "push" /\ call[t].f = f
                                         /\ call[t].item # NULL /\ enq[t][f] > 0
         IN <<call[t].item>>
    ELSE <<>>

\* The non-null items f has given out or still holds, oldest first.
Delivered(f) == NonNull(poplog[f] \o queued[f])

\* C1 (as claimed): the items of the successful non-null pushes on S are, in
\* push order, exactly those S has popped or still holds.
C1_FifoOrderAnyCapacity ==
    Delivered("S") = OkItems(pushlog["S"]) \o InFlight("S")

\* C1 (amended): the same, for a FIFO whose max_queued is not 0 (with
\* max_queued = 0 a push returns 0 and stores nothing).
C1_FifoOrder ==
    max_queued["S"] # 0 =>
        Delivered("S") = OkItems(pushlog["S"]) \o InFlight("S")

C1_Witness ==
    /\ max_queued["S"] # 0
    /\ Len(NonNull(poplog["S"])) >= 2
    /\ NonNull(queued["S"]) # <<>>
    /\ Len(OkItems(pushlog["S"])) >= 3

\* The pushes of the log are the claim's scenario: all non-null, no pop so
\* far, capacity N > 0 and BLOCK_MAX_OUTPUT unset.
CapacityScenario(f) ==
    /\ max_queued[f] > 0
    /\ BLOCK_MAX_OUTPUT \notin block_flags[f]
    /\ poplog[f] = <<>>
    /\ \A i \in 1..Len(pushlog[f]) : pushlog[f][i].item # NULL
    /\ \A t \in Threads : call[t].op = "push" => call[t].item # NULL

\* The first `room` pushes of the scenario return 0, the later ones return
\* queue-full and leave the queue as it was.
CapacityIs(f, room) ==
    /\ \A i \in 1..Len(pushlog[f]) :
           pushlog[f][i].code = (IF i <= room THEN OK ELSE ENOBUFS)
    /\ Len(queued[f]) <= room
    /\ queued[f] = OkItems(pushlog[f]) \o InFlight(f)

PullResumes(t) ==
    /\ pc[t] = "pull_wait"
    /\ t \notin wait_in[call[t].f]
    /\ (pc'[t] # "pull_wait" \/ t \in wait_in'[call[t].f])

\* A poke is pending on an empty FIFO that blocks on no input.
PokePending(f) ==
    /\ poked[f]
    /\ queued[f] = <<>>
    /\ BLOCK_NO_INPUT \in block_flags[f]

\* What the consumer t2 does when it comes back from the wait with a poke
\* pending: with PULL_POKE it returns try-again and a null item, without it
\* it waits again; either way poked is cleared.
PokeStep ==
    (PullResumes("t2") /\ PokePending("S")) =>
        /\ ~poked'["S"]
        /\ IF PULL_POKE \in call["t2"].flags
           THEN /\ pc'["t2"] = "idle"
                /\ ret'["t2"].code = EAGAIN
                /\ ret'["t2"].out = NULL
           ELSE /\ pc'["t2"] = "pull_wait"
                /\ "t2" \in wait_in'["S"]

\* The consumer is blocked with PULL_POKE and poke has set poked.
PokedWaiter ==
    /\ pc["t2"] = "pull_wait"
    /\ PULL_POKE \in call["t2"].flags
    /\ poked["S"]

\* C6: a consumer blocked on the empty FIFO with PULL_POKE returns try-again
\* with a null item once poke was called (and does return); one blocked
\* without PULL_POKE clears poked and waits again.
C6_PokeWakes ==
    /\ [][PokeStep]_vars
    /\ (PokedWaiter ~> pc["t2"] = "idle")

\* The consumer, blocked with PULL_POKE, has been signalled by poke.
C6_Witness ==
    /\ PokedWaiter
    /\ PokePending("S")
    /\ "t2" \notin wait_in["S"]
    /\ woken_by["t2"] = "poke"

\* ------------------------------------------------------------------------
\* S is bounded and its pushes block when it is over capacity.
BlocksWhenFull(f) == max_queued[f] > 0 /\ BLOCK_MAX_OUTPUT \in block_flags[f]

\* The step in which the producer t1, having the lock, decides what to do
\* with a non-null item that finds the queue over capacity: it suspends and
\* stores nothing.
SuspendStep ==
    (/\ pc["t1"] = "push_lock" /\ pc'["t1"] # "push_lock"
     /\ BlocksWhenFull("S")
     /\ call["t1"].item # NULL
     /\ num_queued("S") > max_queued["S"] + 1) =>
        /\ pc'["t1"] = "push_wait"
        /\ "t1" \in wait_out'["S"]
        /\ queued' = queued

\* A pop on S takes the suspended producer out of its wait.
PopReleases ==
    (/\ "t1" \in wait_out["S"] /\ BlocksWhenFull("S")
     /\ poplog'["S"] # poplog["S"]) => "t1" \notin wait_out'["S"]

\* The suspended producer resumes: the item goes to the tail of the queue.
ResumeStep ==
    (pc["t1"] = "push_wait" /\ pc'["t1"] # "push_wait") =>
        /\ pc'["t1"] = "push_dist"
        /\ queued'["S"] = Append(queued["S"], call["t1"].item)

\* A push on the blocking FIFO returns 0.
ReturnsZero ==
    (/\ pc["t1"] # "idle" /\ pc'["t1"] = "idle"
     /\ BlocksWhenFull("S")) => ret'["t1"].code = OK

\* The producer leaves its wait only in a step that pops from S.
LeavesWaitOnlyByPop ==
    ("t1" \in wait_out["S"] /\ "t1" \notin wait_out'["S"]) =>
        poplog'["S"] # poplog["S"]

\* The producer leaves its wait only in a step that pops from S, or by a
\* spurious return of pthread_cond_wait.
LeavesWaitByPopOrSpuriously ==
    ("t1" \in wait_out["S"] /\ "t1" \notin wait_out'["S"]) =>
        (poplog'["S"] # poplog["S"] \/ woken_by'["t1"] = "spurious")

\* The producer has been taken out of its wait and has not resumed yet.
WokenPusher == pc["t1"] = "push_wait" /\ "t1" \notin wait_out["S"]

\* C7 (as claimed): the push suspends without storing, stays suspended as
\* long as no pop runs on the FIFO, and after a pop resumes, stores the item
\* and returns 0.
C7_BlocksUntilPopOnly ==
    /\ [][SuspendStep /\ PopReleases /\ ResumeStep /\ ReturnsZero]_vars
    /\ [][LeavesWaitOnlyByPop]_vars
    /\ (WokenPusher ~> pc["t1"] = "idle")

\* C7 (amended): the same, except that the suspension also ends when
\* pthread_cond_wait returns spuriously.
C7_BlocksUntilPop ==
    /\ [][SuspendStep /\ PopReleases /\ ResumeStep /\ ReturnsZero]_vars
    /\ [][LeavesWaitByPopOrSpuriously]_vars
    /\ (WokenPusher ~> pc["t1"] = "idle")

\* The producer, woken by a pop, has stored its item above the capacity.
C7_Witness ==
    /\ BlocksWhenFull("S")
    /\ pc["t1"] = "push_dist"
    /\ woken_by["t1"] = "pop"
    /\ enq["t1"]["S"] = 1
    /\ call["t1"].item # NULL
    /\ queued["S"][num_queued("S")] = call["t1"].item

\* ------------------------------------------------------------------------
\* The FIFOs a push on f gets to: f, its destinations, theirs, and so on.
RECURSIVE ReachFrom(_, _)
ReachFrom(F, n) ==
    IF n = 0 THEN F
    ELSE ReachFrom(F \cup UNION {Range(dests[g]) : g \in F}, n - 1)

Reach(f) == ReachFrom({f}, Cardinality(Fifo))

\* The step in which the producer's top-level push returns.
PushReturns(t) == pc[t] # "idle" /\ pc'[t] = "idle" /\ call[t].op = "push"

\* The step in which an activation of the producer's push, holding the
\* lock of FIFO f, decides what to do with the item.
PushDecides(t, f) ==
    /\ pc[t] = "push_lock" /\ pc'[t] # "push_lock"
    /\ Top(t).f = f

\* A null push is never refused and never waits, whatever the length of
\* the queue; it stores one null entry in a FIFO that buffers and nothing in
\* one whose max_queued is 0.
NullDecision ==
    \A f \in Fifo :
        (PushDecides("t1", f) /\ call["t1"].item = NULL) =>
            /\ pc'["t1"] = "push_dist"
            /\ queued'[f] = IF max_queued[f] = 0 THEN queued[f]
                            ELSE Append(queued[f], NULL)

\* The null push returns 0 and has entered every FIFO reachable from S.
NullDelivered ==
    (PushReturns("t1") /\ call["t1"].item = NULL) =>
        /\ ret'["t1"].code = OK
        /\ \A f \in Reach("S") \ {"S"} :
               enq'["t1"][f] = IF max_queued[f] = 0 THEN 0 ELSE 1

\* C3 (as claimed): a null push into S is delivered to the destinations and
\* stores nothing in S, whatever S's max_queued is.
C3_NullNotStoredInSource ==
    [][NullDelivered /\ ((PushReturns("t1") /\ call["t1"].item = NULL) =>
                             enq'["t1"]["S"] = 0)]_vars

\* C3 (amended): a null push into S is delivered to the destinations, is
\* never refused, and stores nothing in S only when S's max_queued is 0;
\* otherwise one null entry is appended to S's queue, over capacity or not.
C3_NullStoredUnlessPassThrough ==
    [][/\ NullDecision
       /\ NullDelivered
       /\ ((PushReturns("t1") /\ call["t1"].item = NULL) =>
              enq'["t1"]["S"] = IF max_queued["S"] = 0 THEN 0 ELSE 1)]_vars

\* A null push into S, mirrored into M and D, has returned: S, M and D each
\* hold the null entry it stored.
C3_Witness ==
    /\ dests["S"] = <<"M", "D">>
    /\ pc["t1"] = "idle" /\ ret["t1"].op = "push"
    /\ pushlog["S"] # <<>>
    /\ pushlog["S"][Len(pushlog["S"])] = [item |-> NULL, code |-> OK]
    /\ \A f \in Fifo : enq["t1"][f] = 1 /\ max_queued[f] # 0
    /\ \A f \in Fifo : queued[f] # <<>> /\ queued[f][num_queued(f)] = NULL

\* ------------------------------------------------------------------------
\* When the push returns, FIFO f has got exactly one clone of the item: the
\* push stored it once, and f still holds it or has popped it.
HoldsOneClone(t, f) ==
    /\ enq'[t][f] = 1
    /\ Count(queued'[f] \o poplog'[f], call[t].item) = 1

\* The non-null push that returns found room in every FIFO of `need` when it
\* was called: it returns 0 and every FIFO reachable from S has one clone.
FanOutWhenRoom(need) ==
    (/\ PushReturns("t1") /\ call["t1"].item # NULL
     /\ need \subseteq call["t1"].room) =>
        /\ ret'["t1"].code = OK
        /\ \A f \in Reach("S") : HoldsOneClone("t1", f)

\* A pop takes the head of its own FIFO and leaves the other queues alone.
PopsOwnCopy ==
    \A f \in Fifo :
        poplog'[f] # poplog[f] =>
            /\ poplog'[f] = Append(poplog[f], Head(queued[f]))
            /\ queued'[f] = Tail(queued[f])
            /\ \A g \in Fifo \ {f} : queued'[g] = queued[g]

\* C5 (as claimed): when the destinations reachable from S each have local
\* capacity, a non-null push on S has stored one clone in S and in every
\* reachable destination when it returns; each FIFO pops its own copy.
C5_FanOutDestsHaveRoom ==
    [][FanOutWhenRoom(Reach("S") \ {"S"}) /\ PopsOwnCopy]_vars

\* C5 (amended): the same when S itself has local capacity too (S buffers
\* and is not over capacity); a push on an S without it stores nothing in
\* S, and one refused by S stores nothing anywhere.
C5_FanOutAllHaveRoom ==
    [][FanOutWhenRoom(Reach("S")) /\ PopsOwnCopy]_vars

\* The push through the chain S -> M -> D has returned 0 with one clone
\* stored in each; M's copy has been popped, S and D still hold theirs.
C5_Witness ==
    /\ dests["S"] = <<"M">> /\ dests["M"] = <<"D">>
    /\ pc["t1"] = "idle" /\ ret["t1"].op = "push" /\ ret["t1"].code = OK
    /\ pushlog["S"] # <<>>
    /\ LET x == pushlog["S"][Len(pushlog["S"])].item IN
          /\ x # NULL
          /\ \A f \in Fifo : enq["t1"][f] = 1
          /\ x \in Range(queued["S"]) /\ x \in Range(queued["D"])
          /\ x \in Range(poplog["M"]) /\ x \notin Range(queued["M"])

\* ------------------------------------------------------------------------
\* C4: a consumer blocked in pop on the empty FIFO D, taken out of its wait
\* by the signal of an unmirror_all on a FIFO mirrored into D, returns from
\* pop with no item.
C4_UnmirrorAllUnblocksPop ==
    [][(/\ PullResumes("t2")
        /\ woken_by["t2"] = "unmirror_all"
        /\ queued["D"] = <<>>) =>
           (pc'["t2"] = "idle" /\ ret'["t2"].out = NULL)]_vars

\* ------------------------------------------------------------------------
\* The step in which t3's mirror call returns.
MirrorReturns == pc["t3"] = "mirror_dests" /\ pc'["t3"] = "idle"
\* The step in which t3's unmirror call returns.
UnmirrorReturns == pc["t3"] = "unmirror_sources" /\ pc'["t3"] = "idle"

\* C8: when mirror(D, S) returns S is in D.sources and D is in S.dests; when
\* a following unmirror(D, S) returns neither holds, whatever mirror and
\* unmirror calls were made on the pair before.
C8_MirrorUnmirrorPair ==
    [][/\ MirrorReturns =>
             /\ call["t3"].g \in Range(sources'[call["t3"].f])
             /\ call["t3"].f \in Range(dests'[call["t3"].g])
       /\ UnmirrorReturns =>
             /\ call["t3"].g \notin Range(sources'[call["t3"].f])
             /\ call["t3"].f \notin Range(dests'[call["t3"].g])]_vars

\* ------------------------------------------------------------------------
NoLinkCall ==
    /\ ~assert_failed
    /\ \A t \in Threads :
           call[t].op \notin {"mirror", "unmirror", "unmirror_all"}

\* C9: whenever no mirror, unmirror or unmirror_all call is in progress, D
\* is in S.dests if and only if S is in D.sources, for all FIFOs S and D.
C9_SymmetricWhenQuiet ==
    NoLinkCall =>
        \A s \in Fifo, d \in Fifo :
            (d \in Range(dests[s])) <=> (s \in Range(sources[d]))

\* ------------------------------------------------------------------------
\* C10: a FIFO is at most once in any other FIFO's dests list and at most
\* once in any other FIFO's sources list, and one push stores at most one
\* copy in each destination.
C10_NoDuplicateLinks ==
    /\ \A s \in Fifo, d \in Fifo :
           Count(dests[s], d) <= 1 /\ Count(sources[d], s) <= 1
    /\ \A t \in Threads, f \in Fifo : enq[t][f] <= 1

\* ------------------------------------------------------------------------
\* A non-null push entering f is refused: f buffers and had no room when
\* the push on S was called (no pop runs in between).
Refuses(t, f) == max_queued[f] # 0 /\ f \notin call[t].room

\* The FIFOs the push enters: S, and the destinations of every FIFO it
\* has entered that did not refuse it.
RECURSIVE AttemptedFrom(_, _, _)
AttemptedFrom(t, F, n) ==
    IF n = 0 THEN F
    ELSE AttemptedFrom(t,
             F \cup UNION {Range(dests[g]) : g \in {h \in F : ~Refuses(t, h)}},
             n - 1)

Attempted(t) == AttemptedFrom(t, {"S"}, Cardinality(Fifo))

\* C11: when a destination refuses the item with queue-full (and no
\* allocation fails), the push still enters every remaining destination:
\* each FIFO entered that has room stores the item, and the push on the
\* source returns queue-full, the first error met; with no refusal it
\* returns 0.
C11_ErrorKeepsFanOut ==
    [][(/\ PushReturns("t1") /\ call["t1"].item # NULL
        /\ ret'["t1"].code # ENOMEM) =>
           /\ \A f \in Fifo :
                  enq'["t1"][f] = IF f \in Attempted("t1") /\ f \in call["t1"].room
                                  THEN 1 ELSE 0
           /\ ret'["t1"].code = IF \E f \in Attempted("t1") : Refuses("t1", f)
                                 THEN ENOBUFS ELSE OK]_vars

\* In the fan, M (visited first) was full and refused the item; the push
\* went on to D, which stored it, and returned queue-full.
C11_Witness ==
    /\ dests["S"] = <<"M", "D">>
    /\ pc["t1"] = "idle" /\ ret["t1"].op = "push" /\ ret["t1"].code = ENOBUFS
    /\ pushlog["S"][Len(pushlog["S"])].item # NULL
    /\ enq["t1"] = [f \in Fifo |-> IF f = "M" THEN 0 ELSE 1]
    /\ max_queued["M"] > 0 /\ num_queued("M") > max_queued["M"] + 1
    /\ queued["D"][num_queued("D")] = pushlog["S"][Len(pushlog["S"])].item

\* ------------------------------------------------------------------------
\* The step in which the consumer's pull, having the lock, runs the loop
\* for the first time.
PullStarts(t) == pc[t] = "pull_lock" /\ pc'[t] # "pull_lock"

\* The policy does not let the pull wait.
NonBlocking(f, flags) ==
    BLOCK_NO_INPUT \notin block_flags[f] \/ PULL_NO_BLOCK \in flags

\* C12: a pull (pop or peek, any flags) that finds the FIFO empty returns
\* try-again with a null output at once and changes no FIFO state when
\* BLOCK_NO_INPUT is unset or PULL_NO_BLOCK is passed; it waits only when
\* BLOCK_NO_INPUT is set and PULL_NO_BLOCK is not passed.
C12_EmptyPullTryAgain ==
    [][(PullStarts("t2") /\ queued["S"] = <<>>) =>
          IF NonBlocking("S", call["t2"].flags)
          THEN /\ pc'["t2"] = "idle"
               /\ ret'["t2"].code = EAGAIN /\ ret'["t2"].out = NULL
               /\ ~ret'["t2"].owned
               /\ UNCHANGED <<fifoVars, listVars, wait_in, wait_out, refs>>
          ELSE pc'["t2"] = "pull_wait" \/ (poked["S"] /\ pc'["t2"] = "idle")]_vars

\* A pull on the empty FIFO, which blocks on no input and was never poked,
\* has returned try-again (it passed PULL_NO_BLOCK) while a push was on its
\* way.
C12_Witness ==
    /\ pc["t2"] = "idle" /\ ret["t2"].op = "pull" /\ ret["t2"].code = EAGAIN
    /\ queued["S"] = <<>>
    /\ BLOCK_NO_INPUT \in block_flags["S"]
    /\ pc["t3"] = "idle" /\ ret["t3"].op = "none" /\ ~poked["S"]
    /\ pc["t1"] = "push_lock"
    /\ pushlog["S"] # <<>>

\* ------------------------------------------------------------------------
\* The caller's own reference to item x: it has pushed x, or is pushing it.
Issued(x) ==
    IF \/ \E f \in Fifo : \E i \in 1..Len(pushlog[f]) : pushlog[f][i].item = x
       \/ \E t \in Threads : call[t].op = "push" /\ call[t].item = x
    THEN 1 ELSE 0

\* The entries of the queues of F that are item x.
RECURSIVE QueuedCopies(_, _)
QueuedCopies(F, x) ==
    IF F = {} THEN 0
    ELSE LET f == CHOOSE g \in F : TRUE
         IN Count(queued[f], x) + QueuedCopies(F \ {f}, x)

\* The references to x that callers got from a pop or peek and have not
\* freed yet.
RECURSIVE HeldCopies(_, _)
HeldCopies(T, x) ==
    IF T = {} THEN 0
    ELSE LET t == CHOOSE u \in T : TRUE
         IN (IF ret[t].owned /\ ret[t].out = x THEN 1 ELSE 0)
            + HeldCopies(T \ {t}, x)

\* C13: the reference count of every item is the pusher's own reference
\* plus one for every queue entry holding the item plus one for every copy
\* a pop or peek handed out and the caller has not freed: an enqueue adds
\* one, pop moves it to the caller, peek adds one, destroy and free drop
\* theirs, and a refused push adds none.
C13_RefsConserved ==
    \A x \in Items :
        refs[x] = Issued(x) + QueuedCopies(Fifo, x) + HeldCopies(Threads, x)

\* S was destroyed holding two items, after a fourth push was refused and
\* the first item was popped and freed: one reference is left to each of the
\* four items, the pusher's.
C13_Witness ==
    /\ ~alive["S"] /\ queued["S"] = <<>>
    /\ Len(pushlog["S"]) = 4
    /\ pushlog["S"][4].code = ENOBUFS
    /\ Len(poplog["S"]) = 1 /\ poplog["S"][1] = 1
    /\ ~ret["t2"].owned
    /\ \A x \in 1..4 : refs[x] = 1 /\ Issued(x) = 1

\* ------------------------------------------------------------------------
\* C14: no call of unmirror trips one of its two assertions (the entries it
\* pops exist), also when unmirror_all detaches the pair concurrently.
C14_UnmirrorNeverAsserts == ~assert_failed

\* ------------------------------------------------------------------------
\* A step that changes S's capacity changes nothing else of the FIFOs.
CapacityOnly ==
    max_queued' # max_queued =>
        UNCHANGED <<queued, block_flags, poked, lock, alive, listVars,
                    wait_in, wait_out, refs>>

\* A non-null push that finds more than max_queued + k items in the bounded
\* S stores nothing: it is refused, or suspends under BLOCK_MAX_OUTPUT.
NotStoredAbove(k) ==
    (/\ PushDecides("t1", "S") /\ call["t1"].item # NULL
     /\ max_queued["S"] > 0
     /\ num_queued("S") > max_queued["S"] + k) =>
        /\ queued' = queued
        /\ IF BLOCK_MAX_OUTPUT \in block_flags["S"]
           THEN pc'["t1"] = "push_wait" /\ "t1" \in wait_out'["S"]
           ELSE pc'["t1"] = "idle" /\ ret'["t1"].code = ENOBUFS

C16_PeekLeavesQueue ==
    [][(PullStarts("t2") /\ queued["S"] # <<>>) =>
          /\ pc'["t2"] = "idle"
          /\ ret'["t2"].code = OK
          /\ ret'["t2"].out = Head(queued["S"])
          /\ ~call["t2"].pop =>
                /\ UNCHANGED <<fifoVars, listVars, wait_in, wait_out>>
                /\ refs' = RefClone(refs, Head(queued["S"]))]_vars

\* A peek has returned the head item, which is still at the head of the
\* full queue, and the producer suspended on the queue is still waiting.
C16_Witness ==
    /\ pc["t2"] = "idle" /\ ret["t2"].op = "pull" /\ ret["t2"].owned
    /\ num_queued("S") >= 3
    /\ ret["t2"].out = Head(queued["S"])
    /\ refs[ret["t2"].out] = 3
    /\ "t1" \in wait_out["S"]

\* ------------------------------------------------------------------------
\* Thread t cannot take its next step before thread u releases a mutex or
\* ends a traversal: t wants the lock of a FIFO that u holds, or wants to
\* pop from (or traverse) a dests list that u is traversing.
WaitsFor(t, u) ==
    \/ pc[t] = "push_lock" /\ lock[Top(t).f] = u
    \/ /\ pc[t] = "push_dist" /\ Top(t).idx = 0 /\ ~Top(t).halt
       /\ dests_iter[Top(t).f] = u
    \/ pc[t] \in {"pull_lock", "pull_wait"} /\ t \notin wait_in[call[t].f]
       /\ lock[call[t].f] = u
    \/ pc[t] = "uma_src_peer" /\ dests_iter[call[t].g] = u
    \/ pc[t] = "uma_dests" /\ dests[call[t].f] # <<>>
       /\ dests_iter[call[t].f] = u

\* C17: no two calls ever wait for each other; a push on S and an
\* unmirror_all on one of its destinations both complete.
C17_NoCircularWait ==
    \A t \in Threads : \A u \in Threads \ {t} :
        ~(WaitsFor(t, u) /\ WaitsFor(u, t))

\* ------------------------------------------------------------------------
\* p is an initial part of q.
IsPrefix(p, q) == Len(p) <= Len(q) /\ SubSeq(q, 1, Len(p)) = p

\* C18: with two producers pushing into S, whose destinations M and D were
\* mirrored in that order and have room, the items reach D in the order
\* they reached M and reach M in the order they reached S; within one push
\* M is reached before D.
C18_FanOutAtomic ==
    /\ IsPrefix(Delivered("M"), Delivered("S"))
    /\ IsPrefix(Delivered("D"), Delivered("M"))
    /\ \A t \in {"t1", "t3"} :
           /\ enq[t]["D"] = 1 => enq[t]["M"] = 1
           /\ enq[t]["M"] = 1 => enq[t]["S"] = 1

\* t3's push waits for S's lock while t1's item is in S and M and not yet
\* in D; an earlier item has gone through all three.
C18_Witness ==
    /\ pc["t3"] = "push_lock" /\ Top("t3").f = "S" /\ lock["S"] = "t1"
    /\ call["t3"].item # NULL
    /\ enq["t1"]["M"] = 1 /\ enq["t1"]["D"] = 0
    /\ Len(Delivered("D")) >= 1

\* ------------------------------------------------------------------------
\* The consumer t2 is inside pthread_cond_wait on M's cond_in.
BlockedInPull == pc["t2"] = "pull_wait" /\ "t2" \in wait_in["M"]

\* The consumer t2 comes back from the wait and finds M empty and not
\* blocking on no input any more.
WakesUnblocking ==
    /\ PullResumes("t2")
    /\ queued["M"] = <<>>
    /\ BLOCK_NO_INPUT \notin block_flags["M"]

\* C19: a change of M's block flags leaves a consumer blocked in pull where
\* it is; it leaves the wait only when woken (by a push, a poke, an
\* unmirror_all of the source, or spuriously), and if it then finds M empty
\* and BLOCK_NO_INPUT removed it returns try-again with a null item, with
\* or without PULL_POKE.
C19_FlagsReadAgainOnWake ==
    [][/\ (BlockedInPull /\ block_flags'["M"] # block_flags["M"]) =>
              BlockedInPull'
       /\ (BlockedInPull /\ ~BlockedInPull') =>
              /\ pc'["t2"] = "pull_wait"
              /\ woken_by'["t2"] \in {"push", "poke", "unmirror_all", "spurious"}
       /\ WakesUnblocking =>
              /\ pc'["t2"] = "idle"
              /\ ret'["t2"].op = "pull"
              /\ ret'["t2"].code = EAGAIN
              /\ ret'["t2"].out = NULL
              /\ "t2" \notin wait_in'["M"]]_vars

\* The consumer, which did not pass PULL_POKE, has been woken by the
\* unmirror_all of the source after set_block_flags removed BLOCK_NO_INPUT;
\* M is empty and no poke is pending.
C19_Witness ==
    /\ pc["t2"] = "pull_wait" /\ "t2" \notin wait_in["M"]
    /\ call["t2"].flags = {}
    /\ woken_by["t2"] = "unmirror_all"
    /\ queued["M"] = <<>> /\ ~poked["M"]
    /\ block_flags["M"] = {}

\* ------------------------------------------------------------------------
\* Thread t is inside unmirror_all, or returns from it.
InUnmirrorAll(t) == call[t].op = "unmirror_all"
UnmirrorAllReturns(t) == pc[t] = "uma_dests" /\ pc'[t] = "idle"

\* The link from src to dst, as the two lists record it.
Link(ds, ss, dst, src) == <<Count(ds[src], dst), Count(ss[dst], src)>>

\* C20: when unmirror_all(ref) returns and no mirror call (and no unmirror
\* call either) overlapped it, ref.dests and ref.sources are empty and ref
\* is in no FIFO's dests or sources; no step of the call changes a queue,
\* or a link between two other FIFOs.
C20_UnmirrorAllDetaches ==
    [][\A t \in Threads :
          /\ (UnmirrorAllReturns(t) /\ ~call[t].raced) =>
                 /\ dests'[call[t].f] = <<>>
                 /\ sources'[call[t].f] = <<>>
                 /\ \A g \in Fifo :
                        /\ call[t].f \notin Range(dests'[g])
                        /\ call[t].f \notin Range(sources'[g])
          /\ (InUnmirrorAll(t) /\ pc'[t] # pc[t]) =>
                 /\ queued' = queued
                 /\ \A a \in Fifo \ {call[t].f}, b \in Fifo \ {call[t].f} :
                        Link(dests', sources', a, b) = Link(dests, sources, a, b)
      ]_vars

\* ------------------------------------------------------------------------
\* The push of t1, called on S with a non-null item, takes S's lock and
\* finds S over capacity with BLOCK_MAX_OUTPUT unset.
SourceOverCapacity ==
    /\ pc["t1"] = "push_lock" /\ pc'["t1"] # "push_lock"
    /\ Len(frames["t1"]) = 1 /\ Top("t1").f = "S"
    /\ call["t1"].item # NULL
    /\ max_queued["S"] > 0
    /\ num_queued("S") > max_queued["S"] + 1
    /\ BLOCK_MAX_OUTPUT \notin block_flags["S"]

\* C21: a non-null push that finds S over capacity (max_queued > 0,
\* BLOCK_MAX_OUTPUT unset) returns queue-full at once: no destination is
\* entered, and the queues, settings, links and waiters of S and of every
\* other FIFO are as before, whether or not the destinations have room.
C21_RefusedAtSourceNoFanOut ==
    [][SourceOverCapacity =>
          /\ pc'["t1"] = "idle"
          /\ ret'["t1"].op = "push" /\ ret'["t1"].code = ENOBUFS
          /\ enq'["t1"] = NoEnq
          /\ frames'["t1"] = <<>>
          /\ UNCHANGED <<fifoVars, listVars, wait_in, wait_out, refs>>]_vars

\* The push on S was refused by S itself while a destination of S, which
\* buffers, had room and holds fewer items than S.
C21_Witness ==
    /\ pc["t1"] = "idle"
    /\ ret["t1"].op = "push" /\ ret["t1"].code = ENOBUFS
    /\ enq["t1"] = NoEnq
    /\ max_queued["S"] > 0 /\ num_queued("S") > max_queued["S"] + 1
    /\ \E d \in Range(dests["S"]) :
           HasRoom(d) /\ num_queued(d) < num_queued("S")

\* ------------------------------------------------------------------------
\* A poke is pending on S when the consumer t2, which was not waiting,
\* takes the lock for a new pull.
LatchedAtPull == PullStarts("t2") /\ poked["S"]

\* The new pull returns try-again and a null item without waiting.
TryAgainAtOnce ==
    /\ pc'["t2"] = "idle"
    /\ ret'["t2"].op = "pull" /\ ret'["t2"].code = EAGAIN
    /\ ret'["t2"].out = NULL
    /\ "t2" \notin wait_in'["S"]

\* No step of a push changes poked; a pull that finds an item leaves poked
\* as it is and returns the item; a poke on a FIFO already poked leaves
\* poked set.
PokeKept ==
    /\ pc'["t1"] # pc["t1"] => poked' = poked
    /\ (LatchedAtPull /\ queued["S"] # <<>>) =>
           /\ poked'["S"]
           /\ pc'["t2"] = "idle" /\ ret'["t2"].code = OK
    /\ (pc["t3"] = "idle" /\ pc'["t3"] = "poke_signal") => poked'["S"]
    /\ (pc["t3"] = "poke_signal" /\ pc'["t3"] = "idle") => poked' = poked

====
